---- MODULE Spec2Model ----
(***************************************************************************)
(* A model of process_cursor_links.py: the record parser                   *)
(* (parse_versions), the link generator (CursorVersion.get_download_links) *)
(* and the three renderers driven by main (Markdown document, JSON         *)
(* structure, CSV table).                                                  *)
(*                                                                         *)
(* Text is a sequence of symbols.  The parser only ever looks at single    *)
(* characters (line break, comma, whitespace), so input text is modelled   *)
(* character by character.  The fixed fragments of the templates (URL      *)
(* prefix, path suffixes, static Markdown blocks) are kept as one symbol   *)
(* each; Python's string concatenation is \o.                              *)
(***************************************************************************)
EXTENDS Integers, Sequences, FiniteSets, TLC

VARIABLES
    data,       \* main: the text handed to parse_versions (line 239/246)
    pc,         \* main: position of the run
    versions,   \* main: the list parse_versions returned (line 246)
    md_file,    \* the file 'Cursor历史.md'
    json_file,  \* the file 'cursor_downloads.json'
    csv_file,   \* the file 'cursor_downloads.csv'
    records,    \* round-trip harness: the records that were serialized into data
    self,       \* link-generator harness: the CursorVersion the method is called on
    links       \* link-generator harness: what get_download_links returned

vars == <<data, pc, versions, md_file, json_file, csv_file, records, self, links>>

----------------------------------------------------------------------------
(* Bounds of the exploration                                               *)

\* longest input text, in characters, that Spec enumerates
MaxLen == 6
\* longest record sequence the round-trip harness serializes
MaxRecs == 2
\* longest version / build_id the link-generator harness draws
MaxField == 2

\* characters the enumerated texts are built from
Alphabet == {"a", ",", " ", "\n"}

----------------------------------------------------------------------------
(* Python str primitives used by the program                               *)

\* the characters str.strip() removes (those that can occur here)
Whitespace == {" ", "\n", "\t", "\r"}

RECURSIVE lstrip(_)
lstrip(s) ==
    IF s # <<>> /\ Head(s) \in Whitespace THEN lstrip(Tail(s)) ELSE s

RECURSIVE rstrip(_)
rstrip(s) ==
    IF s # <<>> /\ s[Len(s)] \in Whitespace
    THEN rstrip(SubSeq(s, 1, Len(s) - 1))
    ELSE s

\* str.strip(): leading and trailing whitespace removed
strip(s) == rstrip(lstrip(s))

\* str.split(sep) for a one-character sep: every occurrence separates, and the
\* result always has at least one (possibly empty) part
RECURSIVE split(_, _)
split(s, sep) ==
    IF \E i \in 1..Len(s) : s[i] = sep
    THEN LET i == CHOOSE j \in 1..Len(s) :
                      s[j] = sep /\ \A k \in 1..(j - 1) : s[k] # sep
         IN  <<SubSeq(s, 1, i - 1)>> \o split(SubSeq(s, i + 1, Len(s)), sep)
    ELSE <<s>>

----------------------------------------------------------------------------
(* CursorVersion and its link generator                                    *)

\* the dataclass constructor CursorVersion(version, build_id)
CursorVersion(version, build_id) == [version |-> version, build_id |-> build_id]

\* d[k] on a dict kept as its insertion-ordered sequence of items
dict_get(d, k) == d[CHOOSE i \in 1..Len(d) : d[i].key = k].value

\* the mutant: the URLs are built from the version instead of the build id
get_download_links_from_version(rec) ==
    LET base_url == <<"https://downloader.cursor.sh/builds/">> \o rec.version
    IN  << [key |-> "windows", value |->
              << [key |-> "x64",   value |-> base_url \o <<"/windows/nsis/x64">>],
                 [key |-> "arm64", value |-> base_url \o <<"/windows/nsis/arm64">>] >>],
           [key |-> "mac", value |->
              << [key |-> "universal", value |-> base_url \o <<"/mac/installer/universal">>],
                 [key |-> "arm64",     value |-> base_url \o <<"/mac/installer/arm64">>],
                 [key |-> "x64",       value |-> base_url \o <<"/mac/installer/x64">>] >>],
           [key |-> "linux", value |->
              << [key |-> "x64", value |-> base_url \o <<"/linux/appImage/x64">>] >>] >>

\* CursorVersion.get_download_links: the dict literal, in insertion order
get_download_links(rec) ==
    LET base_url == <<"https://downloader.cursor.sh/builds/">> \o rec.build_id
    IN  << [key |-> "windows", value |->
              << [key |-> "x64",   value |-> base_url \o <<"/windows/nsis/x64">>],
                 [key |-> "arm64", value |-> base_url \o <<"/windows/nsis/arm64">>] >>],
           [key |-> "mac", value |->
              << [key |-> "universal", value |-> base_url \o <<"/mac/installer/universal">>],
                 [key |-> "arm64",     value |-> base_url \o <<"/mac/installer/arm64">>],
                 [key |-> "x64",       value |-> base_url \o <<"/mac/installer/x64">>] >>],
           [key |-> "linux", value |->
              << [key |-> "x64", value |-> base_url \o <<"/linux/appImage/x64">>] >>] >>

----------------------------------------------------------------------------
(* parse_versions                                                          *)

\* the mutant: a line that does not unpack into two fields is skipped
RECURSIVE parse_loop_skipping(_, _)
parse_loop_skipping(lines, acc) ==
    IF lines = <<>> THEN [raised |-> FALSE, value |-> acc]
    ELSE LET line == Head(lines) IN
         IF line = <<>> THEN parse_loop_skipping(Tail(lines), acc)
         ELSE LET parts == split(strip(line), ",") IN
              IF Len(parts) # 2 THEN parse_loop_skipping(Tail(lines), acc)
              ELSE parse_loop_skipping(Tail(lines),
                       Append(acc, CursorVersion(parts[1], parts[2])))

\* the mutant: the line is cut at its first comma only (split(',', 1))
RECURSIVE parse_loop_first_comma(_, _)
parse_loop_first_comma(lines, acc) ==
    IF lines = <<>> THEN [raised |-> FALSE, value |-> acc]
    ELSE LET line == Head(lines) IN
         IF line = <<>> THEN parse_loop_first_comma(Tail(lines), acc)
         ELSE LET s == strip(line)
                  parts == split(s, ",") IN
              IF Len(parts) < 2 THEN [raised |-> TRUE, value |-> <<>>]
              ELSE parse_loop_first_comma(Tail(lines),
                       Append(acc, CursorVersion(parts[1],
                                       SubSeq(s, Len(parts[1]) + 2, Len(s)))))

\* the mutant: each record is put in front of the list instead of behind it
RECURSIVE parse_loop_prepending(_, _)
parse_loop_prepending(lines, acc) ==
    IF lines = <<>> THEN [raised |-> FALSE, value |-> acc]
    ELSE LET line == Head(lines) IN
         IF line = <<>> THEN parse_loop_prepending(Tail(lines), acc)
         ELSE LET parts == split(strip(line), ",") IN
              IF Len(parts) # 2 THEN [raised |-> TRUE, value |-> <<>>]
              ELSE parse_loop_prepending(Tail(lines),
                       <<CursorVersion(parts[1], parts[2])>> \o acc)

\* the for loop of parse_versions over the remaining lines, acc being the list
\* `versions` built so far.  The tuple assignment raises ValueError unless the
\* split yields exactly two parts; the exception discards the list.
RECURSIVE parse_loop(_, _)
parse_loop(lines, acc) ==
    IF lines = <<>> THEN [raised |-> FALSE, value |-> acc]
    ELSE LET line == Head(lines) IN
         IF line = <<>> THEN parse_loop(Tail(lines), acc)
         ELSE LET parts == split(strip(line), ",") IN
              IF Len(parts) # 2 THEN [raised |-> TRUE, value |-> <<>>]
              ELSE parse_loop(Tail(lines),
                       Append(acc, CursorVersion(parts[1], parts[2])))

\* parse_versions(data): either raises or returns the list of records
parse_versions(text) == parse_loop(split(strip(text), "\n"), <<>>)

----------------------------------------------------------------------------
(* generate_markdown                                                       *)

\* The seven string literals of generate_markdown, one symbol each.  A
\* character outside ASCII is written <U+nnnn>.
MD_WINDOWS_X64 ==
    "# <U+1F5A5><U+FE0F> Windows\n\n## x64\n<details>\n<summary style=\"font-size:1.2em\"><U+1F4E6> Windows x64 <U+5B89><U+88C5><U+5305></summary>\n\n| <U+7248><U+672C> | <U+4E0B><U+8F7D><U+94FE><U+63A5> |\n|------|----------|\n"

MD_WINDOWS_ARM64 ==
    "\n</details>\n\n## ARM64 \n<details>\n<summary style=\"font-size:1.2em\"><U+1F4F1> Windows ARM64 <U+5B89><U+88C5><U+5305></summary>\n\n| <U+7248><U+672C> | <U+4E0B><U+8F7D><U+94FE><U+63A5> |\n|------|----------|\n"

MD_MAC_UNIVERSAL ==
    "\n</details>\n\n# <U+1F34E> macOS\n\n## Universal\n<details>\n<summary style=\"font-size:1.2em\"><U+1F3AF> macOS Universal <U+5B89><U+88C5><U+5305></summary>\n\n| <U+7248><U+672C> | <U+4E0B><U+8F7D><U+94FE><U+63A5> |\n|------|----------|\n"

MD_MAC_ARM64 ==
    "\n</details>\n\n## ARM64\n<details>\n<summary style=\"font-size:1.2em\"><U+1F4AA> macOS ARM64 <U+5B89><U+88C5><U+5305></summary>\n\n| <U+7248><U+672C> | <U+4E0B><U+8F7D><U+94FE><U+63A5> |\n|------|----------|\n"

MD_MAC_X64 ==
    "\n</details>\n\n## Intel\n<details>\n<summary style=\"font-size:1.2em\"><U+1F4BB> macOS Intel <U+5B89><U+88C5><U+5305></summary>\n\n| <U+7248><U+672C> | <U+4E0B><U+8F7D><U+94FE><U+63A5> |\n|------|----------|\n"

MD_LINUX_X64 ==
    "\n</details>\n\n# <U+1F427> Linux\n\n## x64\n<details>\n<summary style=\"font-size:1.2em\"><U+1F3AE> Linux x64 AppImage</summary>\n\n| <U+7248><U+672C> | <U+4E0B><U+8F7D><U+94FE><U+63A5> |\n|------|----------|\n"

MD_STYLE ==
    "\n</details>\n\n<style>\ndetails {\n    margin: 1em 0;\n    padding: 0.5em 1em;\n    background: #f8f9fa;\n    border-radius: 8px;\n    box-shadow: 0 2px 4px rgba(0,0,0,0.1);\n}\n\nsummary {\n    cursor: pointer;\n    font-weight: bold;\n    margin: -0.5em -1em;\n    padding: 0.5em 1em;\n}\n\nsummary:hover {\n    background: #f1f3f5;\n}\n\ntable {\n    width: 100%;\n    border-collapse: collapse;\n    margin-top: 1em;\n}\n\nth, td {\n    padding: 0.5em;\n    text-align: left;\n    border-bottom: 1px solid #dee2e6;\n}\n\ntr:hover {\n    background: #f1f3f5;\n}\n\na {\n    color: #0366d6;\n    text-decoration: none;\n}\n\na:hover {\n    text-decoration: underline;\n}\n</style>\n"

\* one table row: f"| {version.version} | [<U+4E0B><U+8F7D>]({url}) |\n"
md_row(rec, url) ==
    <<"| ">> \o rec.version \o <<" | [<U+4E0B><U+8F7D>](">> \o url \o <<") |\n">>

\* one of the six for loops: a row per version, for links[platform][arch]
RECURSIVE md_rows(_, _, _)
md_rows(vs, platform, arch) ==
    IF vs = <<>> THEN <<>>
    ELSE LET lk == get_download_links(Head(vs))
         IN  md_row(Head(vs), dict_get(dict_get(lk, platform), arch))
                 \o md_rows(Tail(vs), platform, arch)

\* the mutant: the macOS Intel section reads links['mac']['arm64']
generate_markdown_intel_arm64(vs) ==
    <<MD_WINDOWS_X64>>      \o md_rows(vs, "windows", "x64")
    \o <<MD_WINDOWS_ARM64>> \o md_rows(vs, "windows", "arm64")
    \o <<MD_MAC_UNIVERSAL>> \o md_rows(vs, "mac", "universal")
    \o <<MD_MAC_ARM64>>     \o md_rows(vs, "mac", "arm64")
    \o <<MD_MAC_X64>>       \o md_rows(vs, "mac", "arm64")
    \o <<MD_LINUX_X64>>     \o md_rows(vs, "linux", "x64")
    \o <<MD_STYLE>>

\* generate_markdown(versions): the document text
generate_markdown(vs) ==
    <<MD_WINDOWS_X64>>      \o md_rows(vs, "windows", "x64")
    \o <<MD_WINDOWS_ARM64>> \o md_rows(vs, "windows", "arm64")
    \o <<MD_MAC_UNIVERSAL>> \o md_rows(vs, "mac", "universal")
    \o <<MD_MAC_ARM64>>     \o md_rows(vs, "mac", "arm64")
    \o <<MD_MAC_X64>>       \o md_rows(vs, "mac", "x64")
    \o <<MD_LINUX_X64>>     \o md_rows(vs, "linux", "x64")
    \o <<MD_STYLE>>

----------------------------------------------------------------------------
(* main: the structured and the tabular renderer                           *)

\* the dict appended to result["versions"] for one version
version_info(rec) ==
    [version |-> rec.version, build_id |-> rec.build_id,
     downloads |-> get_download_links(rec)]

RECURSIVE json_versions(_)
json_versions(vs) ==
    IF vs = <<>> THEN <<>>
    ELSE <<version_info(Head(vs))>> \o json_versions(Tail(vs))

\* the mutant: a version already present in the result is not appended again
RECURSIVE json_versions_dedup(_, _)
json_versions_dedup(vs, acc) ==
    IF vs = <<>> THEN acc
    ELSE json_versions_dedup(Tail(vs),
             IF \E i \in 1..Len(acc) : acc[i] = version_info(Head(vs))
             THEN acc ELSE Append(acc, version_info(Head(vs))))

build_result_dedup(vs) == [versions |-> json_versions_dedup(vs, <<>>)]

\* the dict `result` that json.dump writes
build_result(vs) == [versions |-> json_versions(vs)]

\* the inner loop: for arch, url in archs.items()
RECURSIVE csv_arch_rows(_, _, _)
csv_arch_rows(rec, platform, archs) ==
    IF archs = <<>> THEN <<>>
    ELSE << <<rec.version, <<platform>>, <<Head(archs).key>>, Head(archs).value>> >>
             \o csv_arch_rows(rec, platform, Tail(archs))

\* the middle loop: for platform, archs in links.items()
RECURSIVE csv_platform_rows(_, _)
csv_platform_rows(rec, items) ==
    IF items = <<>> THEN <<>>
    ELSE csv_arch_rows(rec, Head(items).key, Head(items).value)
             \o csv_platform_rows(rec, Tail(items))

\* the outer loop: for version in versions
RECURSIVE csv_version_rows(_)
csv_version_rows(vs) ==
    IF vs = <<>> THEN <<>>
    ELSE csv_platform_rows(Head(vs), get_download_links(Head(vs)))
             \o csv_version_rows(Tail(vs))

CSV_HEADER == << <<"Version">>, <<"Platform">>, <<"Architecture">>, <<"Download URL">> >>

\* the mutant: the loops are nested the other way round, platform outermost
RECURSIVE csv_rows_of_platform(_, _)
csv_rows_of_platform(vs, p) ==
    IF vs = <<>> THEN <<>>
    ELSE LET item == get_download_links(Head(vs))[p]
         IN  csv_arch_rows(Head(vs), item.key, item.value)
                 \o csv_rows_of_platform(Tail(vs), p)

csv_rows_platform_major(vs) ==
    <<CSV_HEADER>> \o csv_rows_of_platform(vs, 1) \o csv_rows_of_platform(vs, 2)
                   \o csv_rows_of_platform(vs, 3)

\* every row handed to writer.writerow, each row a list of four cells
csv_rows(vs) == <<CSV_HEADER>> \o csv_version_rows(vs)

----------------------------------------------------------------------------
(* main                                                                    *)

\* the string literal `data` of main, character by character
EmbeddedData ==
    <<"\n", "0", ".", "4", "5", ".", "1", "1", ",", "2", "5", "0", "2",
       "0", "7", "y", "6", "n", "b", "a", "w", "5", "q", "c", "\n", "0",
       ".", "4", "5", ".", "1", "0", ",", "2", "5", "0", "2", "0", "5",
       "b", "u", "a", "d", "k", "z", "p", "e", "a", "\n", "#", " ", ".",
       ".", ".", " ", "<U+66F4>", "<U+591A>", "<U+7248>", "<U+672C>",
       "<U+6570>", "<U+636E>", " ", ".", ".", ".", "\n" >>

\* a file: not there, there from an earlier run, or written by this run
NoFile(empty)    == [state |-> "absent",  content |-> empty]
OldFile(empty)   == [state |-> "stale",   content |-> empty]
Written(content) == [state |-> "written", content |-> content]

\* the mutant: the document file is opened for writing before parsing
ParseVersionsAfterOpen ==
    /\ pc = "start"
    /\ md_file' = Written(<<>>)
    /\ LET r == parse_versions(data) IN
         IF r.raised
         THEN pc' = "failed" /\ UNCHANGED versions
         ELSE pc' = "parsed" /\ versions' = r.value
    /\ UNCHANGED <<data, json_file, csv_file, records, self, links>>

\* versions = parse_versions(data); a ValueError ends the run
ParseVersions ==
    /\ pc = "start"
    /\ LET r == parse_versions(data) IN
         IF r.raised
         THEN pc' = "failed" /\ UNCHANGED versions
         ELSE pc' = "parsed" /\ versions' = r.value
    /\ UNCHANGED <<data, md_file, json_file, csv_file, records, self, links>>

\* markdown_content = generate_markdown(versions); open(..., 'w'); f.write
WriteMarkdown ==
    /\ pc = "parsed"
    /\ md_file' = Written(generate_markdown(versions))
    /\ pc' = "md_written"
    /\ UNCHANGED <<data, versions, json_file, csv_file, records, self, links>>

\* result = {...}; open(..., 'w'); json.dump(result, f, ...)
WriteJson ==
    /\ pc = "md_written"
    /\ json_file' = Written(build_result(versions))
    /\ pc' = "json_written"
    /\ UNCHANGED <<data, versions, md_file, csv_file, records, self, links>>

\* open(..., 'w'); writer.writerow(header); writer.writerow per link
WriteCsv ==
    /\ pc = "json_written"
    /\ csv_file' = Written(csv_rows(versions))
    /\ pc' = "done"
    /\ UNCHANGED <<data, versions, md_file, json_file, records, self, links>>

main == ParseVersions \/ WriteMarkdown \/ WriteJson \/ WriteCsv

----------------------------------------------------------------------------
(* Specifications                                                          *)

Strings(n) == UNION {[1..k -> Alphabet] : k \in 0..n}

\* every text of up to MaxLen characters, and the text main embeds
Texts == Strings(MaxLen) \cup {EmbeddedData}

NoRecord == CursorVersion(<<>>, <<>>)

\* the files before the run: all absent, or all left by an earlier run
FilesBefore ==
    \E old \in BOOLEAN :
        /\ md_file   = IF old THEN OldFile(<<>>) ELSE NoFile(<<>>)
        /\ json_file = IF old THEN OldFile([versions |-> <<>>])
                              ELSE NoFile([versions |-> <<>>])
        /\ csv_file  = IF old THEN OldFile(<<>>) ELSE NoFile(<<>>)

\* main run on any text
Init ==
    /\ data \in Texts
    /\ pc = "start"
    /\ versions = <<>>
    /\ FilesBefore
    /\ records = <<>>
    /\ self = NoRecord
    /\ links = <<>>

Next == main

Spec == Init /\ [][Next]_vars

\* the fields the round-trip harness builds records from
RoundTripFields ==
    {<<>>, <<"a">>, <<",">>, <<"\n">>, <<" ", "a">>, <<"a", " ">>}

RoundTripRecords ==
    {CursorVersion(v, b) : v \in RoundTripFields, b \in RoundTripFields}

\* one "version,build_id" line per record
RECURSIVE Serialize(_)
Serialize(rs) ==
    IF rs = <<>> THEN <<>>
    ELSE Head(rs).version \o <<",">> \o Head(rs).build_id \o <<"\n">>
             \o Serialize(Tail(rs))

\* main run on the serialization of any sequence of up to MaxRecs records
InitRoundTrip ==
    /\ records \in UNION {[1..k -> RoundTripRecords] : k \in 0..MaxRecs}
    /\ data = Serialize(records)
    /\ pc = "start"
    /\ versions = <<>>
    /\ FilesBefore
    /\ self = NoRecord
    /\ links = <<>>

SpecRoundTrip == InitRoundTrip /\ [][Next]_vars

\* the link generator called on any record
InitLinks ==
    /\ self \in {CursorVersion(v, b) : v \in Strings(MaxField), b \in Strings(MaxField)}
    /\ links = <<>>
    /\ data = <<>>
    /\ pc = "call"
    /\ versions = <<>>
    /\ md_file = NoFile(<<>>)
    /\ json_file = NoFile([versions |-> <<>>])
    /\ csv_file = NoFile(<<>>)
    /\ records = <<>>

\* links = self.get_download_links()
CallGetDownloadLinks ==
    /\ pc = "call"
    /\ links' = get_download_links(self)
    /\ pc' = "returned"
    /\ UNCHANGED <<data, versions, md_file, json_file, csv_file, records, self>>

NextLinks == CallGetDownloadLinks

SpecLinks == InitLinks /\ [][NextLinks]_vars

----------------------------------------------------------------------------
(* Vocabulary of the properties, defined on the raw text and on the suffix *)
(* table of the specification rather than through the program's operators  *)

\* the table of (platform, architecture) pairs and their path suffixes
SuffixTable ==
    << [platform |-> "windows", arch |-> "x64",       suffix |-> "/windows/nsis/x64"],
       [platform |-> "windows", arch |-> "arm64",     suffix |-> "/windows/nsis/arm64"],
       [platform |-> "mac",     arch |-> "universal", suffix |-> "/mac/installer/universal"],
       [platform |-> "mac",     arch |-> "arm64",     suffix |-> "/mac/installer/arm64"],
       [platform |-> "mac",     arch |-> "x64",       suffix |-> "/mac/installer/x64"],
       [platform |-> "linux",   arch |-> "x64",       suffix |-> "/linux/appImage/x64"] >>

Pairs == 1..Len(SuffixTable)

\* the URL of a build id for the k-th pair of the table
ExpectedUrl(build_id, k) ==
    <<"https://downloader.cursor.sh/builds/">> \o build_id \o <<SuffixTable[k].suffix>>

\* the number of line breaks of text t before position i
BreaksBefore(t, i) == Cardinality({j \in 1..(i - 1) : t[j] = "\n"})

NumLines(t) == BreaksBefore(t, Len(t) + 1) + 1

\* the k-th line of t, without its line break
Line(t, k) ==
    LET at == {i \in 1..Len(t) : t[i] # "\n" /\ BreaksBefore(t, i) = k - 1}
    IN  IF at = {} THEN <<>>
        ELSE SubSeq(t, CHOOSE i \in at : \A j \in at : i <= j,
                       CHOOSE i \in at : \A j \in at : j <= i)

\* a blank line holds nothing but whitespace
Blank(l) == \A i \in 1..Len(l) : l[i] \in {" ", "\t", "\r"}

Commas(l) == Cardinality({i \in 1..Len(l) : l[i] = ","})

\* the numbers of the non-blank lines of t
NonBlankAt(t) == {k \in 1..NumLines(t) : ~Blank(Line(t, k))}

\* the n-th non-blank line of t
NonBlankLine(t, n) ==
    Line(t, CHOOSE k \in NonBlankAt(t) :
                Cardinality({j \in NonBlankAt(t) : j <= k}) = n)

\* a line without the whitespace around it
Trimmed(l) ==
    LET at == {i \in 1..Len(l) : l[i] \notin {" ", "\t", "\r"}}
    IN  IF at = {} THEN <<>>
        ELSE SubSeq(l, CHOOSE i \in at : \A j \in at : i <= j,
                       CHOOSE i \in at : \A j \in at : j <= i)

FirstComma(l) == CHOOSE i \in 1..Len(l) : l[i] = "," /\ \A j \in 1..(i - 1) : l[j] # ","

\* the record a line gives when cut at its first comma
CutAtFirstComma(l) ==
    [version  |-> SubSeq(Trimmed(l), 1, FirstComma(Trimmed(l)) - 1),
     build_id |-> SubSeq(Trimmed(l), FirstComma(Trimmed(l)) + 1, Len(Trimmed(l)))]

Returned == pc \in {"parsed", "md_written", "json_written", "done"}

----------------------------------------------------------------------------
(* C1 *)

\* the (platform, architecture, URL) entries of a link set
Entries(d) ==
    {<<d[i].key, d[i].value[j].key, d[i].value[j].value>> :
        <<i, j>> \in {p \in (1..Len(d)) \X (1..3) : p[2] <= Len(d[p[1]].value)}}

\* C1: whatever the record, get_download_links returns exactly the six
\* (platform, architecture) entries of the suffix table, and the URL of each is
\* the fixed prefix, the record's build_id and the pair's suffix; the version
\* plays no part.
C1_LinkSet ==
    pc = "returned" =>
        /\ Len(links) = 3
        /\ Len(links[1].value) + Len(links[2].value) + Len(links[3].value) = 6
        /\ Entries(links) =
              {<<SuffixTable[k].platform, SuffixTable[k].arch,
                 ExpectedUrl(self.build_id, k)>> : k \in Pairs}

C1_Witness ==
    /\ pc = "returned"
    /\ self.version = <<"a", ",">>
    /\ self.build_id = <<" ", "\n">>

----------------------------------------------------------------------------
(* C2 *)

\* C2: when every non-blank line of the input is well formed (holds exactly
\* one comma), parse_versions returns one record per non-blank line, in input
\* order, and blank lines, wherever they stand and also when they hold
\* whitespace, cause neither a record nor an error.
C2_BlankLinesIgnored ==
    (pc # "start" /\ \A k \in NonBlankAt(data) : Commas(Line(data, k)) = 1) =>
        /\ Returned
        /\ Len(versions) = Cardinality(NonBlankAt(data))
        /\ \A n \in 1..Len(versions) :
              versions[n] = CutAtFirstComma(NonBlankLine(data, n))

----------------------------------------------------------------------------
(* C3 *)

Malformed(l) == ~Blank(l) /\ Commas(l) # 1

\* C3: when some non-blank line holds no comma or more than one,
\* parse_versions fails and no record is returned, whatever the lines before it.
C3_MalformedAborts ==
    (pc # "start" /\ \E k \in 1..NumLines(data) : Malformed(Line(data, k))) =>
        pc = "failed" /\ versions = <<>>

C3_Witness ==
    /\ pc = "failed"
    /\ NumLines(data) = 2
    /\ Commas(Line(data, 1)) = 1
    /\ Malformed(Line(data, 2))

----------------------------------------------------------------------------
(* C4 *)

\* every line is either empty or holds a character that is not whitespace
NoWhitespaceLine(t) == \A k \in 1..NumLines(t) : Line(t, k) = <<>> \/ ~Blank(Line(t, k))

\* C4 as stated: every non-blank line with at least one comma is cut at its
\* first comma into version and build_id.
C4_CutAtFirstComma ==
    (/\ pc # "start"
     /\ NoWhitespaceLine(data)
     /\ \A k \in NonBlankAt(data) : Commas(Line(data, k)) >= 1) =>
        /\ Returned
        /\ Len(versions) = Cardinality(NonBlankAt(data))
        /\ \A n \in 1..Len(versions) :
              versions[n] = CutAtFirstComma(NonBlankLine(data, n))

\* C4 amended: whenever parse_versions returns, every non-blank line held
\* exactly one comma and gave the record whose version is the text before that
\* comma and whose build_id is the text after it, of the line without the
\* whitespace around it; a line with two or more commas is never cut at its
\* first comma.
C4_CutAtOnlyComma ==
    Returned =>
        /\ \A k \in NonBlankAt(data) : Commas(Line(data, k)) = 1
        /\ Len(versions) = Cardinality(NonBlankAt(data))
        /\ \A n \in 1..Len(versions) :
              versions[n] = CutAtFirstComma(NonBlankLine(data, n))

C4_Witness ==
    /\ pc = "parsed"
    /\ data = <<" ", "a", ",", "a", " ", "a">>
    /\ versions = <<CursorVersion(<<"a">>, <<"a", " ", "a">>)>>

----------------------------------------------------------------------------
(* C5 *)

\* C5: as long as parse_versions has not returned, and for good when it has
\* failed, none of the three output files has been opened or written.
C5_NoOutputBeforeParse ==
    pc \in {"start", "failed"} =>
        /\ md_file.state # "written"
        /\ json_file.state # "written"
        /\ csv_file.state # "written"

C5_Witness ==
    /\ pc = "failed"
    /\ md_file = OldFile(<<>>)
    /\ csv_file = OldFile(<<>>)

----------------------------------------------------------------------------
(* C6 *)

\* C6: the table written for N records is the header row followed by 6*N
\* rows, record after record in input order and, within a record, pair after
\* pair in the order of the suffix table, each row holding the record's
\* version, the platform, the architecture and the record's URL for the pair.
C6_TabularRows ==
    csv_file.state = "written" =>
        LET rows == csv_file.content
            N == Len(versions)
        IN  /\ Len(rows) = 1 + 6 * N
            /\ rows[1] = << <<"Version">>, <<"Platform">>, <<"Architecture">>,
                            <<"Download URL">> >>
            /\ \A i \in 1..N : \A k \in Pairs :
                  rows[1 + 6 * (i - 1) + k] =
                      << versions[i].version,
                         <<SuffixTable[k].platform>>,
                         <<SuffixTable[k].arch>>,
                         ExpectedUrl(versions[i].build_id, k) >>

C6_Witness ==
    /\ csv_file.state = "written"
    /\ Len(versions) = 2
    /\ versions[1].build_id # versions[2].build_id
    /\ versions[1].version # versions[2].version

----------------------------------------------------------------------------
(* C7 *)

\* C7: the "versions" array written for N records has N elements in input
\* order, duplicates included, the i-th holding the i-th record's version,
\* its build_id and, under "downloads", the record's link set.
C7_StructuredVersions ==
    json_file.state = "written" =>
        LET out == json_file.content.versions
        IN  /\ Len(out) = Len(versions)
            /\ \A i \in 1..Len(versions) :
                  /\ out[i].version = versions[i].version
                  /\ out[i].build_id = versions[i].build_id
                  /\ out[i].downloads = get_download_links(versions[i])

C7_Witness ==
    /\ json_file.state = "written"
    /\ Len(versions) = 3
    /\ versions[1] = versions[3]
    /\ versions[1] # versions[2]

----------------------------------------------------------------------------
(* C8 *)

\* the heading of each of the six sections, and the closing block
SectionHead ==
    <<MD_WINDOWS_X64, MD_WINDOWS_ARM64, MD_MAC_UNIVERSAL, MD_MAC_ARM64,
      MD_MAC_X64, MD_LINUX_X64>>

ExpectedRow(rec, k) ==
    <<"| ">> \o rec.version \o <<" | [<U+4E0B><U+8F7D>](">>
             \o ExpectedUrl(rec.build_id, k) \o <<") |\n">>

RECURSIVE ExpectedRows(_, _, _)
ExpectedRows(vs, i, k) ==
    IF i > Len(vs) THEN <<>>
    ELSE ExpectedRow(vs[i], k) \o ExpectedRows(vs, i + 1, k)

RECURSIVE ExpectedSections(_, _)
ExpectedSections(vs, k) ==
    IF k > Len(SuffixTable) THEN <<MD_STYLE>>
    ELSE <<SectionHead[k]>> \o ExpectedRows(vs, 1, k) \o ExpectedSections(vs, k + 1)

\* C8: the document is six sections in the order of the suffix table, each
\* its fixed heading followed by one row per record in input order, the row
\* pairing the record's version with its URL for the section's pair, and
\* then the fixed closing block.
C8_DocumentSections ==
    md_file.state = "written" => md_file.content = ExpectedSections(versions, 1)

C8_Witness ==
    /\ md_file.state = "written"
    /\ Len(versions) = 2
    /\ versions[1].build_id = <<"a">>
    /\ versions[2].build_id = <<>>

----------------------------------------------------------------------------
(* C9 *)

\* C9 as stated: parsing the serialization of any records returns them.
C9_RoundTripAny ==
    pc # "start" => (Returned /\ versions = records)

\* a record whose line parses back to it
Plain(rec) ==
    /\ \A i \in 1..Len(rec.version) : rec.version[i] \notin {",", "\n"}
    /\ \A i \in 1..Len(rec.build_id) : rec.build_id[i] \notin {",", "\n"}
    /\ rec.version # <<>> => rec.version[1] \notin {" ", "\t", "\r"}
    /\ rec.build_id # <<>> => rec.build_id[Len(rec.build_id)] \notin {" ", "\t", "\r"}

\* C9 amended: parsing the serialization of records returns them, in order,
\* provided no field holds a comma or a line break, no version begins with
\* whitespace and no build_id ends with whitespace.
C9_RoundTripPlain ==
    (pc # "start" /\ \A i \in 1..Len(records) : Plain(records[i])) =>
        (Returned /\ versions = records)

C9_Witness ==
    /\ Returned
    /\ Len(records) = 2
    /\ records[1] = CursorVersion(<<"a", " ">>, <<"a">>)
    /\ records[2] = CursorVersion(<<>>, <<" ", "a">>)
    /\ versions = records

----------------------------------------------------------------------------
(* C10 *)

\* C10: on the text main embeds, parse_versions returns two records and the
\* run does not fail; the document is written before the structure, and
\* the structure before the table.
C10_EmbeddedRunCompletes ==
    data = EmbeddedData =>
        /\ pc # "failed"
        /\ Returned => Len(versions) = 2
        /\ json_file.state = "written" => md_file.state = "written"
        /\ csv_file.state = "written" => json_file.state = "written"

====
